---- MODULE Spec2Model ----
(***************************************************************************)
(* Credit ledger of the bookstore backend: the request handlers of         *)
(* routes/chapters (unlock), routes/payments (verify-receipt, merge) and   *)
(* routes/auth (guest, verify) acting on the two account tables `users`    *)
(* and `guests`.  Every `await` of a handler is one step, so that two      *)
(* requests interleave exactly where the Node event loop lets them.        *)
(***************************************************************************)
EXTENDS Integers, Sequences, FiniteSets, TLC

\* ---------------------------------------------------------------- bounds
\* request handlers that can be in flight at the same time
NumProcs == 2
\* requests accepted in one behaviour
MaxRequests == 4

\* ------------------------------------------------------ program constants
CHAPTER_COST == 50
\* chapterNumber < 6 is free
FIRST_PAID_CHAPTER == 6
\* number_of_credits written by POST /verify
DEFAULT_USER_CREDITS == 1250
\* Apple status "sandbox receipt sent to production"
STATUS_SANDBOX_RECEIPT == 21007

Procs == 1..NumProcs
Ids == {"a", "b"}
ProductIds == {"credits_203", "credits_503", "credits_999"}
TransactionIds == {"t1", "t2", "t3"}
\* the (productId, transactionId, receiptData) a client sends: the three purchases the
\* authority knows, and one whose productId is not the one the receipt holds for t1
CreditRequests ==
    { <<"credits_203", "t1", "rA">>, <<"credits_503", "t2", "rA">>,
      <<"credits_203", "t3", "rB">>, <<"credits_503", "t1", "rA">> }
\* requests that fail before account resolution: a receipt both endpoints answer
\* with 21007, a request without receiptData, and a purchase of a product that is
\* no credit package
RejectedRequests ==
    { <<"credits_203", "t1", "rC">>, <<"credits_203", "t1", "">>,
      <<"credits_999", "t9", "rD">> }
BookIds == {"book1"}
ChapterNumbers == {1, 5, 6, 7}

\* ---------------------------------------------------------------- helpers
Range(s) == {s[i] : i \in DOMAIN s}

Includes(s, x) == x \in Range(s)

\* Array.from(new Set(s)): first occurrences, in order
RECURSIVE Dedupe(_)
Dedupe(s) ==
    IF s = <<>> THEN <<>>
    ELSE LET front == Dedupe(SubSeq(s, 1, Len(s) - 1))
             x == s[Len(s)]
         IN IF Includes(front, x) THEN front ELSE Append(front, x)

\* purchasedSet.add(x) followed by Array.from(purchasedSet)
SetAdd(s, x) == IF Includes(s, x) THEN s ELSE Append(s, x)

\* `${bookId}:${chapterNumber}`
ChapterKey(bookId, chapterNumber) == <<bookId, chapterNumber>>

\* rows of the `chapters` table
ChapterCatalog == {<<"book1", n>> : n \in 1..6}

\* ---------------------------------------------------------------- catalog
CREDIT_PACKAGES ==
    << [id |-> "201",  totalCredits |-> 600,  productId |-> "credits_203",  oneTime |-> TRUE],
       [id |-> "500",  totalCredits |-> 500,  productId |-> "credits_503",  oneTime |-> FALSE],
       [id |-> "1000", totalCredits |-> 1150, productId |-> "credits_1003", oneTime |-> FALSE],
       [id |-> "1500", totalCredits |-> 1800, productId |-> "credits_1503", oneTime |-> FALSE],
       [id |-> "2500", totalCredits |-> 3125, productId |-> "credits_2503", oneTime |-> FALSE],
       [id |-> "3500", totalCredits |-> 4725, productId |-> "credits_3503", oneTime |-> FALSE],
       [id |-> "5000", totalCredits |-> 7250, productId |-> "credits_5003", oneTime |-> FALSE] >>

NoPackage == [id |-> "", totalCredits |-> 0, productId |-> "", oneTime |-> FALSE]

\* CREDIT_PACKAGES.find(pkg => pkg.productId === productId)
findPackageByProductId(productId) ==
    LET hits == {i \in DOMAIN CREDIT_PACKAGES : CREDIT_PACKAGES[i].productId = productId}
    IN IF hits = {} THEN NoPackage
       ELSE CREDIT_PACKAGES[CHOOSE i \in hits : \A j \in hits : i <= j]

\* --------------------------------------------------------- settings blob
EmptyObject == [purchasedProducts |-> <<>>, processedTransactions |-> <<>>, theme |-> "none"]

\* the `settings: {}` of a created profile
EmptySettings == [kind |-> "object", obj |-> EmptyObject]

ObjectBlob(obj) == [kind |-> "object", obj |-> obj]

\* variant of parseSettings that takes whatever text it is given for parsed content
\* (sensitivity of C26)
parseSettings_Lenient(rawSettings) == rawSettings.obj

\* null -> {}, a JSON string -> its parse ({} when it does not parse), an object -> itself
parseSettings(rawSettings) ==
    CASE rawSettings.kind = "null"      -> EmptyObject
      [] rawSettings.kind = "string"    -> rawSettings.obj
      [] rawSettings.kind = "malformed" -> EmptyObject
      [] OTHER                          -> rawSettings.obj

\* ------------------------------------------------------------------ rows
baseProfile ==
    [number_of_credits |-> 0, bookmarks |-> <<>>, settings |-> EmptySettings,
     paid_chapters |-> <<>>]

userProfile ==
    [number_of_credits |-> DEFAULT_USER_CREDITS, bookmarks |-> <<>>,
     settings |-> EmptySettings, paid_chapters |-> <<>>]

\* a guest as an earlier purchase and earlier unlocks leave it: credits_503 credited
\* for transaction "t0" (500 credits), then chapters 6..14 of "book0" unlocked
\* (9 * 50), which leaves one chapter's worth of credits
SeedGuest ==
    [number_of_credits |-> CHAPTER_COST, bookmarks |-> <<"bm1">>,
     settings |-> ObjectBlob([EmptyObject EXCEPT !.processedTransactions = <<"t0">>,
                                                 !.theme = "dark"]),
     paid_chapters |-> [n \in 1..9 |-> ChapterKey("book0", n + 5)]]

\* upsert(row, {onConflict: 'id'}): insert, or overwrite every given column
Upsert(table, id, row) ==
    [i \in DOMAIN table \cup {id} |-> IF i = id THEN row ELSE table[i]]

\* ------------------------------------------------------- receipt authority
Txn(productId, transactionId) == [product_id |-> productId, transaction_id |-> transactionId]

\* what buy.itunes.apple.com answers for a receipt
AppleProduction(receiptData) ==
    CASE receiptData = "rA" ->
            [status |-> 0, in_app |-> <<Txn("credits_203", "t1"), Txn("credits_503", "t2")>>]
      [] receiptData = "rD" -> [status |-> 0, in_app |-> <<Txn("credits_999", "t9")>>]
      [] OTHER -> [status |-> STATUS_SANDBOX_RECEIPT, in_app |-> <<>>]

\* what sandbox.itunes.apple.com answers for a receipt
AppleSandbox(receiptData) ==
    CASE receiptData = "rB" -> [status |-> 0, in_app |-> <<Txn("credits_203", "t3")>>]
      [] receiptData = "rC" -> [status |-> STATUS_SANDBOX_RECEIPT, in_app |-> <<>>]
      [] OTHER -> [status |-> 21008, in_app |-> <<>>]

\* ------------------------------------------------------------- variables
VARIABLES
    users,      \* table `users`: id -> row
    guests,     \* table `guests`: id -> row
    procs,      \* request handlers in flight: position and locals
    last,       \* the response most recently sent
    nreq,       \* requests accepted so far
    presented,  \* history: transaction ids submitted per account id
    granted,    \* history: credit responses with creditsAdded > 0 per account id and product
    initial     \* history: the guests table at start

vars == <<users, guests, procs, last, nreq, presented, granted, initial>>

IdleProc ==
    [op |-> "idle", pc |-> "idle", userId |-> "", productId |-> "", transactionId |-> "",
     receiptData |-> "", bookId |-> "", chapterNumber |-> 0, guestId |-> "",
     repeat |-> FALSE, priorTotal |-> 0, creditedBefore |-> FALSE, contacts |-> 0, retry |-> FALSE,
     storeError |-> FALSE, table |-> "", data |-> baseProfile, guestData |-> baseProfile]

NoResponse ==
    [op |-> "none", userId |-> "", productId |-> "", transactionId |-> "",
     receiptData |-> "", bookId |-> "", chapterNumber |-> 0, guestId |-> "",
     repeat |-> FALSE, priorTotal |-> 0, creditedBefore |-> FALSE, contacts |-> 0, retry |-> FALSE,
     status |-> 0, error |-> "", amount |-> 0, newTotal |-> 0, required |-> 0, current |-> 0]

EmptyTable == [i \in {} |-> baseProfile]

Init ==
    /\ users = EmptyTable
    /\ guests \in {EmptyTable, [i \in {"a"} |-> SeedGuest]}
    /\ procs = [p \in Procs |-> IdleProc]
    /\ last = NoResponse
    /\ nreq = 0
    /\ presented = [i \in Ids |-> {}]
    /\ granted = [i \in Ids |-> [q \in ProductIds |-> 0]]
    /\ initial = guests

AllIdle == \A p \in Procs : procs[p] = IdleProc

\* res.json / res.status(..).json of the handler whose locals are `me`
Response(me, status, error, amount, newTotal) ==
    [op |-> me.op, userId |-> me.userId, productId |-> me.productId,
     transactionId |-> me.transactionId, receiptData |-> me.receiptData,
     bookId |-> me.bookId, chapterNumber |-> me.chapterNumber,
     guestId |-> me.guestId, repeat |-> me.repeat, priorTotal |-> me.priorTotal,
     creditedBefore |-> me.creditedBefore, contacts |-> me.contacts, retry |-> me.retry,
     status |-> status, error |-> error, amount |-> amount, newTotal |-> newTotal,
     required |-> 0, current |-> 0]

Respond(p, resp) ==
    /\ procs' = [procs EXCEPT ![p] = IdleProc]
    /\ last' = resp

Goto(p, rec) ==
    /\ procs' = [procs EXCEPT ![p] = rec]
    /\ last' = last

\* the request asks again what the previous response answered with a change
RepeatsLast(me) ==
    /\ last.op = me.op /\ last.status = 200
    /\ (me.op = "merge" \/ last.amount > 0)
    /\ last.userId = me.userId /\ last.productId = me.productId
    /\ last.transactionId = me.transactionId /\ last.receiptData = me.receiptData
    /\ last.bookId = me.bookId /\ last.chapterNumber = me.chapterNumber
    /\ last.guestId = me.guestId

\* the request asks again what the previous response answered with a failed write
RetriesLast(me) ==
    /\ last.op = me.op /\ last.error = "Failed to update credits"
    /\ last.userId = me.userId /\ last.productId = me.productId
    /\ last.transactionId = me.transactionId /\ last.receiptData = me.receiptData

\* the locals of a handler that starts on request `req`
Started(req, pc) ==
    [req EXCEPT !.pc = pc, !.repeat = RepeatsLast(req), !.retry = RetriesLast(req),
                !.priorTotal = IF RepeatsLast(req) THEN last.newTotal ELSE 0]

\* a request is accepted by the first idle handler p
Accept(p) ==
    /\ procs[p] = IdleProc
    /\ \A q \in Procs : q < p => procs[q] # IdleProc
    /\ nreq < MaxRequests
    /\ nreq' = nreq + 1

\* ------------------------------------------------ ensureAccount (both copies)
\* variant of UnlockAfterEnsure that skips the balance check (sensitivity of C8)
UnlockAfterEnsure_NoBalanceCheck(p, table, data) ==
    LET currentCredits == data.number_of_credits
        paidChapters == data.paid_chapters
        chapterKey == ChapterKey(procs[p].bookId, procs[p].chapterNumber)
    IN IF Includes(paidChapters, chapterKey)
       THEN Respond(p, Response(procs[p], 200, "", 0, currentCredits))
       ELSE Goto(p, [procs[p] EXCEPT !.pc = "fetchChapter", !.table = table, !.data = data])

\* what follows `const ensured = await ensureAccount(userId)` in POST /unlock
UnlockAfterEnsure(p, table, data) ==
    LET currentCredits == data.number_of_credits
        paidChapters == data.paid_chapters
        chapterKey == ChapterKey(procs[p].bookId, procs[p].chapterNumber)
    IN IF currentCredits < CHAPTER_COST
       THEN Respond(p, [Response(procs[p], 400, "Insufficient credits", 0, 0)
                           EXCEPT !.required = CHAPTER_COST, !.current = currentCredits])
       ELSE IF Includes(paidChapters, chapterKey)
       THEN Respond(p, Response(procs[p], 200, "", 0, currentCredits))
       ELSE Goto(p, [procs[p] EXCEPT !.pc = "fetchChapter", !.table = table, !.data = data])

\* variant of CreditAfterEnsure that skips the replay guard (sensitivity of C1)
CreditAfterEnsure_NoReplayGuard(p, table, data) ==
    LET packageData == findPackageByProductId(procs[p].productId)
        userSettings == parseSettings(data.settings)
        purchasedSet == Dedupe(userSettings.purchasedProducts)
    IN IF packageData.oneTime /\ Includes(purchasedSet, procs[p].productId)
       THEN Respond(p, Response(procs[p], 200, "", 0, data.number_of_credits))
       ELSE Goto(p, [procs[p] EXCEPT !.pc = "update", !.table = table, !.data = data])

\* what follows `const ensured = await ensureAccount(userId)` in POST /apple/verify-receipt
CreditAfterEnsure(p, table, data) ==
    LET packageData == findPackageByProductId(procs[p].productId)
        userSettings == parseSettings(data.settings)
        purchasedSet == Dedupe(userSettings.purchasedProducts)
        processedTransactions == userSettings.processedTransactions
    IN IF packageData.oneTime /\ Includes(purchasedSet, procs[p].productId)
       THEN Respond(p, Response(procs[p], 200, "", 0, data.number_of_credits))
       ELSE IF Includes(processedTransactions, procs[p].transactionId)
       THEN Respond(p, Response(procs[p], 200, "", 0, data.number_of_credits))
       ELSE Goto(p, [procs[p] EXCEPT !.pc = "update", !.table = table, !.data = data])

AfterEnsure(p, table, data) ==
    IF procs[p].op = "credit" THEN CreditAfterEnsure(p, table, data)
    ELSE UnlockAfterEnsure(p, table, data)

\* let found = await fetchFrom('users')
EnsureFetchUsers(p) ==
    /\ procs[p].pc = "fetchUsers"
    /\ IF procs[p].userId \in DOMAIN users
       THEN AfterEnsure(p, "users", users[procs[p].userId])
       ELSE Goto(p, [procs[p] EXCEPT !.pc = "fetchGuests"])
    /\ UNCHANGED <<users, guests, nreq, presented, granted, initial>>

\* found = await fetchFrom('guests')
EnsureFetchGuests(p) ==
    /\ procs[p].pc = "fetchGuests"
    /\ IF procs[p].userId \in DOMAIN guests
       THEN AfterEnsure(p, "guests", guests[procs[p].userId])
       ELSE Goto(p, [procs[p] EXCEPT !.pc = "create"])
    /\ UNCHANGED <<users, guests, nreq, presented, granted, initial>>

\* const created = await supabaseAdmin.from('guests').upsert(baseProfile, ..).select(..).single()
EnsureCreate(p) ==
    /\ procs[p].pc = "create"
    /\ guests' = Upsert(guests, procs[p].userId, baseProfile)
    /\ AfterEnsure(p, "guests", guests'[procs[p].userId])
    /\ UNCHANGED <<users, nreq, presented, granted, initial>>

Table(name) == IF name = "users" THEN users ELSE guests

\* update(fields).eq('id', id) on the table the account was resolved in
WriteRow(p, row) ==
    LET id == procs[p].userId
    IN IF procs[p].table = "users"
       THEN /\ users' = IF id \in DOMAIN users THEN [users EXCEPT ![id] = row] ELSE users
            /\ guests' = guests
       ELSE /\ guests' = IF id \in DOMAIN guests THEN [guests EXCEPT ![id] = row] ELSE guests
            /\ users' = users

\* the row as stored now, for the columns an update leaves alone
Stored(p) ==
    LET id == procs[p].userId
        table == Table(procs[p].table)
    IN IF id \in DOMAIN table THEN table[id] ELSE baseProfile

\* ------------------------------------------------------------ POST /unlock
\* variant of IsFree with the threshold one chapter lower (sensitivity of C4)
IsFree_OneLower(chapterNumber) == chapterNumber < FIRST_PAID_CHAPTER - 1

\* chapterNumber < 6
IsFree(chapterNumber) == chapterNumber < FIRST_PAID_CHAPTER

\* newTotal of the "Chapter is free" response
FreeNewTotal(userId) == 0

UnlockStart(p, userId, bookId, chapterNumber) ==
    /\ Accept(p)
    /\ LET me == Started([IdleProc EXCEPT !.op = "unlock", !.userId = userId,
                             !.bookId = bookId, !.chapterNumber = chapterNumber],
                         "fetchUsers")
       IN IF IsFree(chapterNumber)
          THEN /\ procs' = procs
               /\ last' = Response(me, 200, "", 0, FreeNewTotal(userId))
          ELSE Goto(p, me)
    /\ UNCHANGED <<users, guests, presented, granted, initial>>

\* await supabaseAdmin.from('chapters').select(..).single()
UnlockFetchChapter(p) ==
    /\ procs[p].op = "unlock"
    /\ procs[p].pc = "fetchChapter"
    /\ IF ChapterKey(procs[p].bookId, procs[p].chapterNumber) \in ChapterCatalog
       THEN Goto(p, [procs[p] EXCEPT !.pc = "update"])
       ELSE Respond(p, Response(procs[p], 404, "Chapter not found", 0, 0))
    /\ UNCHANGED <<users, guests, nreq, presented, granted, initial>>

\* variant of UnlockNewCredits that charges the chapter twice (sensitivity of C28)
UnlockNewCredits_Twice(currentCredits) == currentCredits - 2 * CHAPTER_COST

\* newCredits = currentCredits - CHAPTER_COST
UnlockNewCredits(currentCredits) == currentCredits - CHAPTER_COST

UnlockUpdate(p) ==
    /\ procs[p].op = "unlock"
    /\ procs[p].pc = "update"
    /\ LET currentCredits == procs[p].data.number_of_credits
           newCredits == UnlockNewCredits(currentCredits)
           updatedPaidChapters ==
               Append(procs[p].data.paid_chapters,
                      ChapterKey(procs[p].bookId, procs[p].chapterNumber))
       IN /\ WriteRow(p, [Stored(p) EXCEPT !.number_of_credits = newCredits,
                                           !.paid_chapters = updatedPaidChapters])
          /\ Respond(p, Response(procs[p], 200, "", CHAPTER_COST, newCredits))
    /\ UNCHANGED <<nreq, presented, granted, initial>>

\* ------------------------------------------------ POST /apple/verify-receipt
\* variant of MatchingTransactions that matches the productId alone (sensitivity of C17)
MatchingTransactions_ProductOnly(inAppPurchases, productId, transactionId) ==
    {i \in DOMAIN inAppPurchases : inAppPurchases[i].product_id = productId}

\* inAppPurchases.find(txn => txn.product_id === productId && txn.transaction_id === transactionId)
MatchingTransactions(inAppPurchases, productId, transactionId) ==
    {i \in DOMAIN inAppPurchases :
        /\ inAppPurchases[i].product_id = productId
        /\ inAppPurchases[i].transaction_id = transactionId}

\* variant of CreditAfterVerify that goes on without a matching transaction
\* (sensitivity of C16)
CreditAfterVerify_NoMatchCheck(p, me, verificationResult) ==
    IF verificationResult.status # 0
    THEN Respond(p, Response(me, 400, "Receipt verification failed", 0, 0))
    ELSE IF findPackageByProductId(me.productId) = NoPackage
    THEN Respond(p, Response(me, 400, "Invalid product ID", 0, 0))
    ELSE Goto(p, [me EXCEPT !.pc = "fetchUsers"])

\* what follows `const verificationResult = await verifyAppleReceipt(receiptData)`
CreditAfterVerify(p, me, verificationResult) ==
    LET matching == MatchingTransactions(verificationResult.in_app, me.productId, me.transactionId)
    IN IF verificationResult.status # 0
       THEN Respond(p, Response(me, 400, "Receipt verification failed", 0, 0))
       ELSE IF matching = {}
       THEN Respond(p, Response(me, 400, "Transaction not found in receipt", 0, 0))
       ELSE IF findPackageByProductId(me.productId) = NoPackage
       THEN Respond(p, Response(me, 400, "Invalid product ID", 0, 0))
       ELSE Goto(p, [me EXCEPT !.pc = "fetchUsers"])

CreditStart(p, userId, productId, transactionId, receiptData) ==
    /\ Accept(p)
    /\ LET me == Started([IdleProc EXCEPT !.op = "credit", !.userId = userId,
                             !.productId = productId, !.transactionId = transactionId,
                             !.receiptData = receiptData,
                             !.creditedBefore = granted[userId][productId] > 0],
                         "verify")
       IN IF receiptData = "" \/ productId = "" \/ transactionId = "" \/ userId = ""
          THEN /\ procs' = procs
               /\ last' = Response(me, 400, "receiptData, productId, transactionId, and userId are required", 0, 0)
          ELSE Goto(p, me)
    /\ presented' = [presented EXCEPT ![userId] = @ \cup {transactionId}]
    /\ UNCHANGED <<users, guests, granted, initial>>

\* verifyAppleReceipt(receiptData, false): the POST to the production endpoint
CreditVerify(p) ==
    /\ procs[p].op = "credit"
    /\ procs[p].pc = "verify"
    /\ LET result == AppleProduction(procs[p].receiptData)
           me == [procs[p] EXCEPT !.contacts = @ + 1]
       IN IF result.status = STATUS_SANDBOX_RECEIPT
          THEN Goto(p, [me EXCEPT !.pc = "verifySandbox"])
          ELSE CreditAfterVerify(p, me, result)
    /\ UNCHANGED <<users, guests, nreq, presented, granted, initial>>

\* variant of CreditVerifySandbox that retries on every 21007 (sensitivity of C15)
CreditVerifySandbox_RetryAgain(p) ==
    /\ procs[p].op = "credit"
    /\ procs[p].pc = "verifySandbox"
    /\ LET result == AppleSandbox(procs[p].receiptData)
           me == [procs[p] EXCEPT !.contacts = @ + 1]
       IN IF result.status = STATUS_SANDBOX_RECEIPT
          THEN Goto(p, me)
          ELSE CreditAfterVerify(p, me, result)
    /\ UNCHANGED <<users, guests, nreq, presented, granted, initial>>

\* verifyAppleReceipt(receiptData, true): the POST to the sandbox endpoint
CreditVerifySandbox(p) ==
    /\ procs[p].op = "credit"
    /\ procs[p].pc = "verifySandbox"
    /\ CreditAfterVerify(p, [procs[p] EXCEPT !.contacts = @ + 1],
                         AppleSandbox(procs[p].receiptData))
    /\ UNCHANGED <<users, guests, nreq, presented, granted, initial>>

\* variant of CreditNewCredits that forgets the current balance (sensitivity of C23)
CreditNewCredits_Overwrite(currentCredits, creditsToAdd) == creditsToAdd

\* newCredits = currentCredits + creditsToAdd
CreditNewCredits(currentCredits, creditsToAdd) == currentCredits + creditsToAdd

\* variant of CreditUpdatedSettings that writes the two lists alone (sensitivity of C22)
CreditUpdatedSettings_ListsOnly(userSettings, packageData, productId, transactionId) ==
    LET purchasedSet == Dedupe(userSettings.purchasedProducts)
    IN [EmptyObject EXCEPT
          !.purchasedProducts = IF packageData.oneTime THEN SetAdd(purchasedSet, productId)
                                ELSE purchasedSet,
          !.processedTransactions = Append(userSettings.processedTransactions, transactionId)]

\* updatedSettings = {...userSettings, purchasedProducts, processedTransactions}
CreditUpdatedSettings(userSettings, packageData, productId, transactionId) ==
    LET purchasedSet == Dedupe(userSettings.purchasedProducts)
    IN [userSettings EXCEPT
          !.purchasedProducts = IF packageData.oneTime THEN SetAdd(purchasedSet, productId)
                                ELSE purchasedSet,
          !.processedTransactions = Append(userSettings.processedTransactions, transactionId)]

\* variant of CreditUpdate that adds to the balance as stored at the write but stores
\* the settings computed from the row read (sensitivity of C27)
CreditUpdate_BalanceFromStore(p) ==
    /\ procs[p].op = "credit"
    /\ procs[p].pc = "update"
    /\ LET packageData == findPackageByProductId(procs[p].productId)
           userSettings == parseSettings(procs[p].data.settings)
           creditsToAdd == packageData.totalCredits
           newCredits == CreditNewCredits(Stored(p).number_of_credits, creditsToAdd)
           updatedSettings == CreditUpdatedSettings(userSettings, packageData,
                                                    procs[p].productId, procs[p].transactionId)
       IN /\ WriteRow(p, [Stored(p) EXCEPT !.number_of_credits = newCredits,
                                           !.settings = ObjectBlob(updatedSettings)])
          /\ Respond(p, Response(procs[p], 200, "", creditsToAdd, newCredits))
          /\ granted' = [granted EXCEPT ![procs[p].userId][procs[p].productId] = @ + 1]
    /\ UNCHANGED <<nreq, presented, initial>>

\* variant of CreditUpdate that adds to the row as stored at the write, as an atomic
\* increment would (sensitivity of C25)
CreditUpdate_Atomic(p) ==
    /\ procs[p].op = "credit"
    /\ procs[p].pc = "update"
    /\ LET packageData == findPackageByProductId(procs[p].productId)
           userSettings == parseSettings(Stored(p).settings)
           creditsToAdd == packageData.totalCredits
           newCredits == CreditNewCredits(Stored(p).number_of_credits, creditsToAdd)
           updatedSettings == CreditUpdatedSettings(userSettings, packageData,
                                                    procs[p].productId, procs[p].transactionId)
       IN /\ WriteRow(p, [Stored(p) EXCEPT !.number_of_credits = newCredits,
                                           !.settings = ObjectBlob(updatedSettings)])
          /\ Respond(p, Response(procs[p], 200, "", creditsToAdd, newCredits))
          /\ granted' = [granted EXCEPT ![procs[p].userId][procs[p].productId] = @ + 1]
    /\ UNCHANGED <<nreq, presented, initial>>

\* await supabaseAdmin.from(accountTable).update({number_of_credits, settings}).eq('id', userId)
CreditUpdate(p) ==
    /\ procs[p].op = "credit"
    /\ procs[p].pc = "update"
    /\ LET packageData == findPackageByProductId(procs[p].productId)
           userSettings == parseSettings(procs[p].data.settings)
           creditsToAdd == packageData.totalCredits
           newCredits == CreditNewCredits(procs[p].data.number_of_credits, creditsToAdd)
           updatedSettings == CreditUpdatedSettings(userSettings, packageData,
                                                    procs[p].productId, procs[p].transactionId)
       IN /\ WriteRow(p, [Stored(p) EXCEPT !.number_of_credits = newCredits,
                                           !.settings = ObjectBlob(updatedSettings)])
          /\ Respond(p, Response(procs[p], 200, "", creditsToAdd, newCredits))
          /\ granted' = [granted EXCEPT ![procs[p].userId][procs[p].productId] = @ + 1]
    /\ UNCHANGED <<nreq, presented, initial>>

\* ---------------------------------------------- POST /merge-guest-account
MergeStart(p, userId, guestId) ==
    /\ Accept(p)
    /\ LET me == Started([IdleProc EXCEPT !.op = "merge", !.userId = userId,
                             !.guestId = guestId, !.table = "users"],
                         "mergeFetchGuest")
       IN IF userId = "" \/ guestId = ""
          THEN /\ procs' = procs
               /\ last' = Response(me, 400, "userId and guestId are required", 0, 0)
          ELSE Goto(p, me)
    /\ UNCHANGED <<users, guests, presented, granted, initial>>

\* await supabaseAdmin.from('guests').select(..).eq('id', guestId).maybeSingle()
MergeFetchGuest(p) ==
    /\ procs[p].op = "merge"
    /\ procs[p].pc = "mergeFetchGuest"
    /\ IF procs[p].guestId \in DOMAIN guests
       THEN Goto(p, [procs[p] EXCEPT !.pc = "mergeFetchUser",
                                     !.guestData = guests[procs[p].guestId]])
       ELSE Respond(p, Response(procs[p], 404, "Guest account not found", 0, 0))
    /\ UNCHANGED <<users, guests, nreq, presented, granted, initial>>

\* variant of MergeFetchUser that goes on with the default profile when the user row
\* is missing (sensitivity of C19)
MergeFetchUser_Defaults(p) ==
    /\ procs[p].op = "merge"
    /\ procs[p].pc = "mergeFetchUser"
    /\ Goto(p, [procs[p] EXCEPT !.pc = "update",
                                !.data = IF procs[p].userId \in DOMAIN users
                                         THEN users[procs[p].userId] ELSE userProfile])
    /\ UNCHANGED <<users, guests, nreq, presented, granted, initial>>

\* await supabaseAdmin.from('users').select(..).eq('id', userId).maybeSingle()
MergeFetchUser(p) ==
    /\ procs[p].op = "merge"
    /\ procs[p].pc = "mergeFetchUser"
    /\ IF procs[p].userId \in DOMAIN users
       THEN Goto(p, [procs[p] EXCEPT !.pc = "update", !.data = users[procs[p].userId]])
       ELSE Respond(p, Response(procs[p], 404, "User account not found", 0, 0))
    /\ UNCHANGED <<users, guests, nreq, presented, granted, initial>>

\* variant of MergeArrays that keeps duplicates (sensitivity of C7)
MergeArrays_Concat(guestArray, userArray) == guestArray \o userArray

\* Array.from(new Set([...guestArray, ...userArray]))
MergeArrays(guestArray, userArray) == Dedupe(guestArray \o userArray)

\* mergedCredits = guestCredits + userCredits
MergedCredits(guestCredits, userCredits) == guestCredits + userCredits

\* variant of MergedRow that carries the guest's credits over and none of its lists
\* (sensitivity of C29)
MergedRow_CreditsOnly(guestData, userData) ==
    [userData EXCEPT !.number_of_credits = MergedCredits(guestData.number_of_credits,
                                                         userData.number_of_credits)]

\* the columns POST /merge-guest-account writes to the user row
MergedRow(guestData, userData) ==
    LET guestSettings == parseSettings(guestData.settings)
        userSettings == parseSettings(userData.settings)
        mergedSettings ==
            [userSettings EXCEPT
                !.purchasedProducts = MergeArrays(guestSettings.purchasedProducts,
                                                  userSettings.purchasedProducts),
                !.processedTransactions = MergeArrays(guestSettings.processedTransactions,
                                                      userSettings.processedTransactions)]
    IN [number_of_credits |-> MergedCredits(guestData.number_of_credits,
                                            userData.number_of_credits),
        settings |-> ObjectBlob(mergedSettings),
        paid_chapters |-> MergeArrays(guestData.paid_chapters, userData.paid_chapters),
        bookmarks |-> MergeArrays(guestData.bookmarks, userData.bookmarks)]

\* variant of MergeUpdate that also empties the credits of the guest row
\* (sensitivity of C20)
MergeUpdate_DrainsGuest(p) ==
    /\ procs[p].op = "merge"
    /\ procs[p].pc = "update"
    /\ LET row == MergedRow(procs[p].guestData, procs[p].data)
           id == procs[p].userId
           guestId == procs[p].guestId
       IN /\ users' = IF id \in DOMAIN users THEN [users EXCEPT ![id] = row] ELSE users
          /\ guests' = IF guestId \in DOMAIN guests
                        THEN [guests EXCEPT ![guestId].number_of_credits = 0] ELSE guests
          /\ Respond(p, Response(procs[p], 200, "", procs[p].guestData.number_of_credits,
                                 row.number_of_credits))
    /\ UNCHANGED <<nreq, presented, granted, initial>>

\* await supabaseAdmin.from('users').update({..merged..}).eq('id', userId)
MergeUpdate(p) ==
    /\ procs[p].op = "merge"
    /\ procs[p].pc = "update"
    /\ LET row == MergedRow(procs[p].guestData, procs[p].data)
       IN /\ WriteRow(p, row)
          /\ Respond(p, Response(procs[p], 200, "", procs[p].guestData.number_of_credits,
                                 row.number_of_credits))
    /\ UNCHANGED <<nreq, presented, granted, initial>>

\* ------------------------------------------------------------ routes/auth
\* a response of a handler that keeps no locals across an await
AuthResponse(op, id, status) ==
    [NoResponse EXCEPT !.op = op, !.userId = id, !.status = status]

\* POST /guest with a guestId: upsert of the default guest profile
GuestUpsert(id) ==
    /\ nreq < MaxRequests
    /\ nreq' = nreq + 1
    /\ guests' = Upsert(guests, id, baseProfile)
    /\ last' = AuthResponse("guest", id, 200)
    /\ UNCHANGED <<users, procs, presented, granted, initial>>

\* POST /verify with a token the identity provider accepts: upsert of the user profile
VerifyUpsert(id) ==
    /\ nreq < MaxRequests
    /\ nreq' = nreq + 1
    /\ users' = Upsert(users, id, userProfile)
    /\ last' = AuthResponse("verify", id, 200)
    /\ UNCHANGED <<guests, procs, presented, granted, initial>>

\* ------------------------------------ store errors in ensureAccount
\* fetchFrom('users') answers {data: null, error}: `if (found.data)` is false and
\* ensureAccount goes on to the guests lookup
EnsureFetchUsersError(p) ==
    /\ procs[p].pc = "fetchUsers"
    /\ Goto(p, [procs[p] EXCEPT !.pc = "fetchGuests", !.storeError = TRUE])
    /\ UNCHANGED <<users, guests, nreq, presented, granted, initial>>

\* fetchFrom('guests') answers {data: null, error}: ensureAccount goes on to the upsert
EnsureFetchGuestsError(p) ==
    /\ procs[p].pc = "fetchGuests"
    /\ Goto(p, [procs[p] EXCEPT !.pc = "create", !.storeError = TRUE])
    /\ UNCHANGED <<users, guests, nreq, presented, granted, initial>>

\* the upsert answers {data: null, error}: ensureAccount returns {error} and the
\* caller answers 500
EnsureCreateError(p) ==
    /\ procs[p].pc = "create"
    /\ Respond(p, Response(procs[p], 500, "Failed to fetch or create account", 0, 0))
    /\ UNCHANGED <<users, guests, nreq, presented, granted, initial>>

\* ------------------------- failures of POST /apple/verify-receipt's calls
\* fetch(verifyUrl) throws or answers a status that is not ok: verifyAppleReceipt
\* throws and the handler's catch answers 500
CreditVerifyError(p) ==
    /\ procs[p].op = "credit"
    /\ procs[p].pc \in {"verify", "verifySandbox"}
    /\ Respond(p, Response([procs[p] EXCEPT !.contacts = @ + 1],
                           500, "Failed to verify receipt", 0, 0))
    /\ UNCHANGED <<users, guests, nreq, presented, granted, initial>>

\* variant of CreditUpdateError that ignores the error (sensitivity of C18)
CreditUpdateError_ReportsSuccess(p) ==
    /\ procs[p].op = "credit"
    /\ procs[p].pc = "update"
    /\ LET creditsToAdd == findPackageByProductId(procs[p].productId).totalCredits
       IN Respond(p, Response(procs[p], 200, "", creditsToAdd,
                              procs[p].data.number_of_credits + creditsToAdd))
    /\ UNCHANGED <<users, guests, nreq, presented, granted, initial>>

\* update(..).eq('id', userId) answers {error}: nothing is stored, the handler answers 500
CreditUpdateError(p) ==
    /\ procs[p].op = "credit"
    /\ procs[p].pc = "update"
    /\ Respond(p, Response(procs[p], 500, "Failed to update credits", 0, 0))
    /\ UNCHANGED <<users, guests, nreq, presented, granted, initial>>

\* ------------------------------------- failure of POST /unlock's write
\* variant of UnlockUpdateError in which the balance was stored before the failure
\* (sensitivity of C24)
UnlockUpdateError_HalfWritten(p) ==
    /\ procs[p].op = "unlock"
    /\ procs[p].pc = "update"
    /\ WriteRow(p, [Stored(p) EXCEPT
                      !.number_of_credits = UnlockNewCredits(procs[p].data.number_of_credits)])
    /\ Respond(p, Response(procs[p], 500, "Failed to unlock chapter", 0, 0))
    /\ UNCHANGED <<nreq, presented, granted, initial>>

\* update(..).eq('id', userId) answers {error}: nothing is stored, the handler answers 500
UnlockUpdateError(p) ==
    /\ procs[p].op = "unlock"
    /\ procs[p].pc = "update"
    /\ Respond(p, Response(procs[p], 500, "Failed to unlock chapter", 0, 0))
    /\ UNCHANGED <<users, guests, nreq, presented, granted, initial>>

\* ------------------------------------------------------------ specification
\* a credit or unlock request arrives
ArriveLedger ==
    \/ \E p \in Procs, userId \in Ids, req \in CreditRequests :
          CreditStart(p, userId, req[1], req[2], req[3])
    \/ \E p \in Procs, userId \in Ids, bookId \in BookIds, chapterNumber \in ChapterNumbers :
          UnlockStart(p, userId, bookId, chapterNumber)

\* a merge, guest or verify request arrives
ArriveOther ==
    \/ \E p \in Procs, userId \in Ids, guestId \in Ids : MergeStart(p, userId, guestId)
    \/ \E id \in Ids : GuestUpsert(id)
    \/ \E id \in Ids : VerifyUpsert(id)

\* a credit or unlock handler in flight resumes after an await
ResumeLedger ==
    \E p \in Procs :
        \/ EnsureFetchUsers(p)
        \/ EnsureFetchGuests(p)
        \/ EnsureCreate(p)
        \/ UnlockFetchChapter(p)
        \/ UnlockUpdate(p)
        \/ CreditVerify(p)
        \/ CreditVerifySandbox(p)
        \/ CreditUpdate(p)

\* a merge handler in flight resumes after an await
ResumeMerge ==
    \E p \in Procs :
        \/ MergeFetchGuest(p)
        \/ MergeFetchUser(p)
        \/ MergeUpdate(p)

Next == ArriveLedger \/ ArriveOther \/ ResumeLedger \/ ResumeMerge

\* requests overlap freely
Spec == Init /\ [][Next]_vars

\* one request at a time: a request arrives only when no handler is in flight
NextSeq == (AllIdle /\ (ArriveLedger \/ ArriveOther)) \/ ResumeLedger \/ ResumeMerge

SeqSpec == Init /\ [][NextSeq]_vars

\* credit and unlock requests only, overlapping freely
NextLedger == ArriveLedger \/ ResumeLedger

LedgerSpec == Init /\ [][NextLedger]_vars

\* a store call of ensureAccount fails
ResolveFault ==
    \E p \in Procs :
        \/ EnsureFetchUsersError(p)
        \/ EnsureFetchGuestsError(p)
        \/ EnsureCreateError(p)

\* one request at a time, and the store calls of ensureAccount may fail
NextResolveFault == NextSeq \/ ResolveFault

ResolveFaultSpec == Init /\ [][NextResolveFault]_vars

\* a credit request arrives that fails before account resolution
ArriveRejected ==
    \E p \in Procs, userId \in Ids, req \in RejectedRequests :
        CreditStart(p, userId, req[1], req[2], req[3])

\* the authority cannot be reached, or the credit write fails
CreditFault ==
    \E p \in Procs :
        \/ CreditVerifyError(p)
        \/ CreditUpdateError(p)

\* one request at a time; requests may be rejected before account resolution, the
\* authority may be unreachable and the credit write may fail
NextFault == NextSeq \/ (AllIdle /\ ArriveRejected) \/ CreditFault

FaultSpec == Init /\ [][NextFault]_vars

\* the unlock write fails
UnlockFault == \E p \in Procs : UnlockUpdateError(p)

\* one request at a time, and the unlock write may fail
NextUnlockFault == NextSeq \/ UnlockFault

UnlockFaultSpec == Init /\ [][NextUnlockFault]_vars

\* what the settings column of a row can hold: null (or nothing), text that is no
\* JSON (here: a cut-off copy of a settings object), JSON text, an object
SettingsBlobs ==
    LET content == [EmptyObject EXCEPT !.purchasedProducts = <<"credits_203">>,
                                       !.processedTransactions = <<"t1">>,
                                       !.theme = "dark"]
    IN { [kind |-> "null", obj |-> EmptyObject],
         [kind |-> "malformed", obj |-> content],
         [kind |-> "string", obj |-> content],
         ObjectBlob(content) }

\* guest a holds one of the settings blobs
InitDecode ==
    /\ users = EmptyTable
    /\ guests \in {[i \in {"a"} |-> [SeedGuest EXCEPT !.settings = blob]] : blob \in SettingsBlobs}
    /\ procs = [p \in Procs |-> IdleProc]
    /\ last = NoResponse
    /\ nreq = 0
    /\ presented = [i \in Ids |-> {}]
    /\ granted = [i \in Ids |-> [q \in ProductIds |-> 0]]
    /\ initial = guests

\* credit and unlock requests only, one at a time
NextSeqLedger == (AllIdle /\ ArriveLedger) \/ ResumeLedger

SeqLedgerSpec == Init /\ [][NextSeqLedger]_vars

DecodeSpec == InitDecode /\ [][NextSeqLedger]_vars

\* a credit request arrives
ArriveCredit ==
    \E p \in Procs, userId \in Ids, req \in CreditRequests :
        CreditStart(p, userId, req[1], req[2], req[3])

\* a credit handler in flight resumes after an await
ResumeCredit ==
    \E p \in Procs :
        \/ EnsureFetchUsers(p)
        \/ EnsureFetchGuests(p)
        \/ EnsureCreate(p)
        \/ CreditVerify(p)
        \/ CreditVerifySandbox(p)
        \/ CreditUpdate(p)

\* credit requests only, overlapping freely
NextCredit == ArriveCredit \/ ResumeCredit

CreditSpec == Init /\ [][NextCredit]_vars

\* ------------------------------------------------------------------ claims
\* the row the resolver would find for id: users first, then guests
HasAccount(id) == id \in DOMAIN users \/ id \in DOMAIN guests

Account(id) ==
    IF id \in DOMAIN users THEN users[id]
    ELSE IF id \in DOMAIN guests THEN guests[id] ELSE baseProfile

Balance(id) == Account(id).number_of_credits

\* the same row after the step
AccountNext(id) ==
    IF id \in DOMAIN users' THEN users'[id]
    ELSE IF id \in DOMAIN guests' THEN guests'[id] ELSE baseProfile

BalanceNext(id) == AccountNext(id).number_of_credits

\* a handler of the given kind is in flight for a request that repeats the previous one
RepeatInFlight(op) == \E p \in Procs : procs[p].op = op /\ procs[p].repeat

NoDuplicates(s) == Cardinality(Range(s)) = Len(s)

\* C1: a credit call that directly follows a crediting call with the same
\* (account, productId, transactionId, receipt) succeeds with creditsAdded = 0, reports
\* the balance the first call left, and modifies neither table; the first call added
\* the package's totalCredits.
C1_CreditTwice ==
    [][ /\ RepeatInFlight("credit") =>
             /\ UNCHANGED <<users, guests>>
             /\ last' # last =>
                  /\ last'.status = 200
                  /\ last'.amount = 0
                  /\ last'.newTotal = last'.priorTotal
                  /\ last'.newTotal = Balance(last'.userId)
        /\ (last' # last /\ last'.op = "credit" /\ last'.status = 200 /\ last'.amount > 0) =>
             /\ last'.amount = findPackageByProductId(last'.productId).totalCredits
             /\ BalanceNext(last'.userId) = last'.newTotal
      ]_vars

C1_Witness ==
    /\ last.op = "credit" /\ last.repeat
    /\ last.status = 200 /\ last.amount = 0
    /\ last.transactionId = "t2"
    /\ Balance(last.userId) > 0

\* C2: a credit call for a one-time package that arrives after a call has credited
\* that package to the same account changes no row in any of its steps and answers
\* creditsAdded = 0, so no account is granted that package's credits twice.
C2_OneTimeOnce ==
    [][ \A p \in Procs :
          ( /\ procs[p].op = "credit" /\ procs[p].creditedBefore
            /\ findPackageByProductId(procs[p].productId).oneTime
            /\ procs'[p] # procs[p] ) =>
            /\ UNCHANGED <<users, guests>>
            /\ procs'[p] = IdleProc => last'.amount = 0
      ]_vars

\* C3: an unlock call that directly follows a successful paid unlock of the same
\* (account, book, chapter) succeeds, deducts nothing and reports the balance the
\* first call left.
C3_UnlockTwice ==
    (last.op = "unlock" /\ last.repeat) =>
        /\ last.status = 200
        /\ last.amount = 0
        /\ last.newTotal = last.priorTotal

\* C4: an unlock of a chapter below the free threshold never enters account
\* resolution, is answered in the step that accepts it with success and zero
\* deduction, and that step leaves both tables as they are.
C4_FreeNoTouch ==
    [][ /\ \A p \in Procs : procs'[p].op = "unlock" => procs'[p].chapterNumber > 5
        /\ (nreq' # nreq /\ last'.op = "unlock" /\ procs' = procs) =>
             /\ UNCHANGED <<users, guests>>
             /\ last'.status = 200
             /\ last'.amount = 0
      ]_vars

C4_Witness ==
    /\ last.op = "unlock" /\ last.chapterNumber = 5 /\ last.status = 200
    /\ ~HasAccount(last.userId)
    /\ HasAccount("b")

\* C5: once a free-tier unlock has been answered and no handler is in flight, the
\* newTotal it reported is the balance the account holds.
C5_FreeReportsBalance ==
    (last.op = "unlock" /\ last.chapterNumber < 6 /\ AllIdle) =>
        last.newTotal = Balance(last.userId)

C5_Witness ==
    /\ last.op = "unlock" /\ last.chapterNumber = 1 /\ last.bookId = "book1"
    /\ Balance(last.userId) = 550

\* C6: a merge that directly follows a successful merge of the same guest into the
\* same user leaves the user row (credits, sets, bookmarks) as the first merge left it.
C6_MergeTwice ==
    [][ RepeatInFlight("merge") => users' = users ]_vars

\* C7: the step of a successful merge that writes the user row leaves in each of its
\* sets the union of the two rows' sets, without duplicates and no longer than both
\* together, writes the sum of the two balances and reports the guest's balance as
\* creditsAdded.
C7_MergeUnion ==
    [][ \A p \in Procs :
          (procs[p].op = "merge" /\ procs[p].pc = "update" /\ procs'[p] = IdleProc) =>
            LET target == users[procs[p].userId]
                source == guests[procs[p].guestId]
                result == users'[procs[p].userId]
                t == parseSettings(target.settings)
                s == parseSettings(source.settings)
                r == parseSettings(result.settings)
                IsUnion(res, a, b) ==
                    /\ Range(res) = Range(a) \cup Range(b)
                    /\ NoDuplicates(res)
                    /\ Len(res) <= Len(a) + Len(b)
            IN /\ IsUnion(r.purchasedProducts, t.purchasedProducts, s.purchasedProducts)
               /\ IsUnion(r.processedTransactions, t.processedTransactions,
                          s.processedTransactions)
               /\ IsUnion(result.paid_chapters, target.paid_chapters, source.paid_chapters)
               /\ result.number_of_credits = target.number_of_credits + source.number_of_credits
               /\ last'.status = 200
               /\ last'.amount = source.number_of_credits
               /\ last'.newTotal = result.number_of_credits
      ]_vars

C7_Witness ==
    /\ last.op = "merge" /\ last.status = 200 /\ last.repeat
    /\ last.amount > 0
    /\ parseSettings(users[last.userId].settings).processedTransactions # <<>>

\* C8: while an unlock of a paid chapter is in flight for an account whose balance is
\* below the chapter cost, no step changes that balance or the unlocked chapters, and
\* the call ends with "Insufficient credits", required = 50 and current = the balance.
C8_Insufficient ==
    [][ \A p \in Procs :
          (procs[p].op = "unlock" /\ Balance(procs[p].userId) < 50) =>
            /\ BalanceNext(procs[p].userId) = Balance(procs[p].userId)
            /\ AccountNext(procs[p].userId).paid_chapters
                 = Account(procs[p].userId).paid_chapters
            /\ procs'[p] = IdleProc =>
                 /\ last'.status = 400
                 /\ last'.error = "Insufficient credits"
                 /\ last'.required = 50
                 /\ last'.current = Balance(procs[p].userId)
      ]_vars

C8_Witness ==
    /\ last.op = "unlock" /\ last.error = "Insufficient credits"
    /\ last.chapterNumber = 7
    /\ Includes(Account(last.userId).paid_chapters, ChapterKey("book1", 6))

\* C9: no balance is ever negative, and whenever a step of a credit, unlock or merge
\* handler lowers a stored balance, that step is the write of a handler which read a
\* balance of at least the chapter cost.
C9_DebitChecked ==
    [][ \A id \in Ids :
          /\ id \in DOMAIN users' => users'[id].number_of_credits >= 0
          /\ id \in DOMAIN guests' => guests'[id].number_of_credits >= 0
          /\ ( /\ procs' # procs
               /\ \/ id \in DOMAIN users /\ users'[id].number_of_credits < users[id].number_of_credits
                  \/ id \in DOMAIN guests /\ guests'[id].number_of_credits < guests[id].number_of_credits )
             => \E p \in Procs :
                   /\ procs[p].pc = "update" /\ procs'[p] = IdleProc
                   /\ procs[p].userId = id
                   /\ procs[p].data.number_of_credits >= 50
      ]_vars

\* the transactions the authority holds, over both endpoints
AuthorityTransactions ==
    UNION { Range(AppleProduction(r).in_app) \cup Range(AppleSandbox(r).in_app) :
            r \in {req[3] : req \in CreditRequests} }

\* totalCredits of the package the authority holds for a transaction id
TransactionCredits(transactionId) ==
    LET txn == CHOOSE x \in AuthorityTransactions : x.transaction_id = transactionId
    IN findPackageByProductId(txn.product_id).totalCredits

RECURSIVE SumCredits(_)
SumCredits(T) ==
    IF T = {} THEN 0
    ELSE LET t == CHOOSE x \in T : TRUE
         IN TransactionCredits(t) + SumCredits(T \ {t})

InitialBalance(id) == IF id \in DOMAIN initial THEN initial[id].number_of_credits ELSE 0

\* C10: no account's stored balance ever exceeds its initial balance plus the
\* totalCredits of the distinct transaction ids presented for it, so no transaction
\* id raises a balance more than once.
C10_AtMostOnce ==
    \A id \in Ids :
        HasAccount(id) => Balance(id) <= InitialBalance(id) + SumCredits(presented[id])

\* the ledger fields of a row: credits, one-time products, processed transactions,
\* unlocked chapters
Ledger(row) ==
    <<row.number_of_credits, parseSettings(row.settings).purchasedProducts,
      parseSettings(row.settings).processedTransactions, row.paid_chapters>>

\* every row of the tables before the step keeps its ledger fields in the step
LedgerKept ==
    /\ \A id \in DOMAIN users : id \in DOMAIN users' /\ Ledger(users'[id]) = Ledger(users[id])
    /\ \A id \in DOMAIN guests : id \in DOMAIN guests' /\ Ledger(guests'[id]) = Ledger(guests[id])

\* C11: a POST /guest or POST /verify request, and every account-resolution step of
\* a credit or unlock handler, leaves the ledger fields of every existing row as
\* they are.
C11_FrameAuth ==
    [][ /\ (nreq' # nreq /\ last'.op \in {"guest", "verify"}) => LedgerKept
        /\ \A p \in Procs :
              (procs[p].pc \in {"fetchUsers", "fetchGuests", "create"} /\ procs'[p] # procs[p])
                 => LedgerKept
      ]_vars

\* C12: a create step of account resolution that runs when the id already has a
\* guest row leaves the ledger fields of that row as they are.
C12_CreateKeeps ==
    [][ \A p \in Procs :
          ( /\ procs[p].pc = "create" /\ procs'[p] # procs[p]
            /\ procs[p].userId \in DOMAIN guests ) =>
            Ledger(guests'[procs[p].userId]) = Ledger(guests[procs[p].userId])
      ]_vars

\* C13: no id has a row in both tables, and a handler reaches the guests lookup only
\* for an id it did not find in users and the create step only for one it found in
\* neither table.
C13_OneKind ==
    /\ \A id \in Ids : ~(id \in DOMAIN users /\ id \in DOMAIN guests)
    /\ \A p \in Procs :
          /\ procs[p].pc = "fetchGuests" => procs[p].userId \notin DOMAIN users
          /\ procs[p].pc = "create" =>
                procs[p].userId \notin DOMAIN users /\ procs[p].userId \notin DOMAIN guests

\* C14: a credit or unlock handler that met a store error during account resolution
\* creates no row and writes nothing in any later step, and it ends with the 500
\* answer.
C14_ResolveAborts ==
    [][ \A p \in Procs :
          (procs[p].storeError /\ procs'[p] # procs[p]) =>
             /\ UNCHANGED <<users, guests>>
             /\ procs'[p] = IdleProc => last'.status = 500
      ]_vars

\* C15: a credit handler contacts the authority at most twice; it contacts the
\* sandbox endpoint only after the production endpoint answered 21007, and then
\* once; a credit answered after two 21007 answers is rejected with no credit.
C15_RetryOnce ==
    /\ \A p \in Procs :
          /\ procs[p].contacts <= 2
          /\ procs[p].pc = "verifySandbox" =>
                /\ procs[p].contacts = 1
                /\ AppleProduction(procs[p].receiptData).status = 21007
    /\ (last.op = "credit" /\ last.contacts > 0 /\ last.error # "Failed to verify receipt") =>
          /\ last.contacts = IF AppleProduction(last.receiptData).status = 21007 THEN 2 ELSE 1
          /\ (last.contacts = 2 /\ AppleSandbox(last.receiptData).status = 21007) =>
                /\ last.status = 400
                /\ last.error = "Receipt verification failed"
                /\ last.amount = 0

C15_Witness ==
    /\ last.op = "credit" /\ last.receiptData = "rC"
    /\ last.contacts = 2 /\ last.status = 400
    /\ HasAccount(last.userId)

\* the answer of the endpoint a credit handler at pc "verify" or "verifySandbox" contacts
Contacted(me) ==
    IF me.pc = "verify" THEN AppleProduction(me.receiptData) ELSE AppleSandbox(me.receiptData)

\* C16: the step that accepts a credit request and every step of a credit handler
\* up to the end of verification leave both tables as they are; a handler that ends
\* there ends with an error and no credit, and a handler goes on to account
\* resolution only when the endpoint answered status 0 with an entry matching the
\* request's productId and transactionId for a known package.
C16_NothingBeforeVerified ==
    [][ /\ (nreq' # nreq /\ \E p \in Procs : procs'[p].op = "credit" /\ procs[p] = IdleProc)
              => UNCHANGED <<users, guests>>
        /\ (nreq' # nreq /\ procs' = procs /\ last'.op = "credit")
              => UNCHANGED <<users, guests>> /\ last'.status = 400 /\ last'.amount = 0
        /\ \A p \in Procs :
              ( /\ procs[p].op = "credit" /\ procs[p].pc \in {"verify", "verifySandbox"}
                /\ procs'[p] # procs[p] ) =>
                /\ UNCHANGED <<users, guests>>
                /\ procs'[p] = IdleProc =>
                      last'.status \in {400, 500} /\ last'.amount = 0
                /\ procs'[p] # IdleProc =>
                      \/ procs[p].pc = "verify" /\ procs'[p].pc = "verifySandbox"
                      \/ /\ procs'[p].pc = "fetchUsers"
                         /\ Contacted(procs[p]).status = 0
                         /\ Txn(procs[p].productId, procs[p].transactionId)
                               \in Range(Contacted(procs[p]).in_app)
                         /\ procs[p].productId \in {pkg.productId : pkg \in Range(CREDIT_PACKAGES)}
      ]_vars

C16_Witness ==
    /\ last.op = "credit" /\ last.status = 400 /\ last.error = "Invalid product ID"
    /\ ~HasAccount(last.userId)
    /\ HasAccount("a")

\* the transaction list of the answer that ends verification of a receipt
VerifiedList(receiptData) ==
    IF AppleProduction(receiptData).status = 21007
    THEN AppleSandbox(receiptData).in_app
    ELSE AppleProduction(receiptData).in_app

\* C17: a credit handler whose endpoint answers status 0 with no entry matching both
\* the request's productId and its transactionId ends in that step with
\* "Transaction not found in receipt" and changes no table; and every credit write,
\* and every answer with creditsAdded > 0, belongs to a request whose pair is an
\* entry of the verified list.
C17_MatchBoth ==
    [][ \A p \in Procs :
          (procs[p].op = "credit" /\ procs'[p] # procs[p]) =>
            LET pair == Txn(procs[p].productId, procs[p].transactionId)
            IN /\ ( /\ procs[p].pc \in {"verify", "verifySandbox"}
                    /\ Contacted(procs[p]).status = 0
                    /\ pair \notin Range(Contacted(procs[p]).in_app) ) =>
                     /\ procs'[p] = IdleProc
                     /\ last'.status = 400
                     /\ last'.error = "Transaction not found in receipt"
                     /\ UNCHANGED <<users, guests>>
               /\ ( \/ procs[p].pc = "update"
                    \/ procs'[p] = IdleProc /\ last'.amount > 0 ) =>
                     pair \in Range(VerifiedList(procs[p].receiptData))
      ]_vars

C17_Witness ==
    /\ last.op = "credit" /\ last.error = "Transaction not found in receipt"
    /\ last.productId = "credits_503" /\ last.transactionId = "t1"
    /\ HasAccount(last.userId)

\* C18: the write step of a credit handler either stores the new balance with the
\* transaction id and answers success, or stores nothing and answers 500; and a
\* request that directly retries a call whose write failed is never answered with
\* creditsAdded = 0: when it succeeds it adds the package's totalCredits to the
\* balance the failed call left, once.
C18_WriteFailure ==
    [][ \A p \in Procs :
          (procs[p].op = "credit" /\ procs'[p] # procs[p]) =>
            LET id == procs[p].userId
                package == findPackageByProductId(procs[p].productId)
            IN /\ procs[p].pc = "update" =>
                    \/ /\ last'.status = 200
                       /\ last'.amount = package.totalCredits
                       /\ BalanceNext(id) = last'.newTotal
                       /\ Includes(parseSettings(AccountNext(id).settings).processedTransactions,
                                   procs[p].transactionId)
                    \/ /\ last'.status = 500
                       /\ last'.amount = 0
                       /\ UNCHANGED <<users, guests>>
               /\ (procs[p].retry /\ procs'[p] = IdleProc) =>
                    \/ /\ last'.status = 200
                       /\ last'.amount = package.totalCredits
                       /\ BalanceNext(id) = Balance(id) + package.totalCredits
                    \/ /\ last'.status = 500
                       /\ UNCHANGED <<users, guests>>
      ]_vars

C18_Witness ==
    /\ last.op = "credit" /\ last.retry
    /\ last.status = 200 /\ last.amount = 600
    /\ Balance(last.userId) = 650

\* C19: a merge handler never adds or removes a row; it answers success only when
\* the guest id has a row in guests and the user id a row in users, and otherwise it
\* answers 404 and leaves both tables as they are.
C19_MergeNeedsBoth ==
    [][ \A p \in Procs :
          (procs[p].op = "merge" /\ procs'[p] # procs[p]) =>
            /\ DOMAIN users' = DOMAIN users /\ DOMAIN guests' = DOMAIN guests
            /\ procs'[p] = IdleProc =>
                  IF procs[p].guestId \in DOMAIN guests /\ procs[p].userId \in DOMAIN users
                  THEN last'.status = 200
                  ELSE /\ last'.status = 404
                       /\ last'.error \in {"Guest account not found", "User account not found"}
                       /\ UNCHANGED <<users, guests>>
      ]_vars

C19_Witness ==
    /\ last.op = "merge" /\ last.status = 404 /\ last.error = "User account not found"
    /\ last.guestId \in DOMAIN guests
    /\ last.userId \notin DOMAIN users

\* C20: no step of a merge handler changes the guests table, and the only row of
\* users it may change is the row of the target user id; so after the call, whether
\* it succeeded or failed, the guest row holds the credits, settings, unlocked
\* chapters and bookmarks it held before.
C20_GuestUntouched ==
    [][ \A p \in Procs :
          (procs[p].op = "merge" /\ procs'[p] # procs[p]) =>
            /\ guests' = guests
            /\ \A id \in DOMAIN users : id # procs[p].userId => users'[id] = users[id]
      ]_vars

C20_Witness ==
    /\ last.op = "merge" /\ last.status = 200 /\ last.amount > 0
    /\ last.guestId \in DOMAIN guests
    /\ guests[last.guestId].number_of_credits = last.amount
    /\ Balance(last.userId) = last.newTotal
    /\ last.newTotal > last.amount

\* C21: an unlock handler that answers for a paid chapter which has no row in the
\* chapters table and is not among the account's unlocked chapters answers
\* "Chapter not found" whatever the balance is, and leaves the account's row as it is.
C21_NotFoundFirst ==
    [][ \A p \in Procs :
          LET id == procs[p].userId
              chapterKey == ChapterKey(procs[p].bookId, procs[p].chapterNumber)
          IN ( /\ procs[p].op = "unlock" /\ procs'[p] = IdleProc
               /\ chapterKey \notin ChapterCatalog
               /\ ~Includes(AccountNext(id).paid_chapters, chapterKey) ) =>
               /\ last'.status = 404
               /\ last'.error = "Chapter not found"
               /\ HasAccount(id) => AccountNext(id) = Account(id)
      ]_vars

\* the settings keys the ledger does not own
OtherKeys(row) == parseSettings(row.settings).theme

\* C22: the write of a successful credit leaves the other settings keys of the
\* account's row as they were, and the write of a successful merge leaves those of
\* the target user row as they were (the guest's other keys are not copied).
C22_OtherKeysKept ==
    [][ \A p \in Procs :
          (procs[p].pc = "update" /\ procs'[p] = IdleProc /\ last'.status = 200) =>
            /\ procs[p].op = "credit" =>
                  OtherKeys(AccountNext(procs[p].userId)) = OtherKeys(Account(procs[p].userId))
            /\ procs[p].op = "merge" =>
                  OtherKeys(users'[procs[p].userId]) = OtherKeys(users[procs[p].userId])
      ]_vars

C22_Witness ==
    /\ last.op = "credit" /\ last.status = 200 /\ last.amount > 0
    /\ OtherKeys(Account(last.userId)) = "dark"
    /\ Includes(parseSettings(Account(last.userId).settings).processedTransactions,
                last.transactionId)

\* C23: the write step of a credit handler that answers success changes one row, the
\* row account resolution found for the id, in the table it was found in: the balance
\* rises by the package's totalCredits, the transaction id is appended to the
\* processed transactions, the product id joins the purchased products exactly when
\* the package is one-time, and the answer carries totalCredits and the new balance.
C23_CreditWrite ==
    [][ \A p \in Procs :
          ( /\ procs[p].op = "credit" /\ procs[p].pc = "update"
            /\ procs'[p] = IdleProc /\ last'.status = 200 ) =>
            LET id == procs[p].userId
                package == findPackageByProductId(procs[p].productId)
                before == parseSettings(Account(id).settings)
                after == parseSettings(AccountNext(id).settings)
            IN /\ procs[p].table = (IF id \in DOMAIN users THEN "users" ELSE "guests")
               /\ IF procs[p].table = "users"
                  THEN guests' = guests /\ \A i \in DOMAIN users \ {id} : users'[i] = users[i]
                  ELSE users' = users /\ \A i \in DOMAIN guests \ {id} : guests'[i] = guests[i]
               /\ BalanceNext(id) = Balance(id) + package.totalCredits
               /\ after.processedTransactions
                    = Append(before.processedTransactions, procs[p].transactionId)
               /\ Range(after.purchasedProducts)
                    = Range(before.purchasedProducts)
                        \cup (IF package.oneTime THEN {procs[p].productId} ELSE {})
               /\ AccountNext(id).paid_chapters = Account(id).paid_chapters
               /\ last'.amount = package.totalCredits
               /\ last'.newTotal = BalanceNext(id)
      ]_vars

C23_Witness ==
    /\ last.op = "credit" /\ last.status = 200
    /\ last.productId = "credits_203"
    /\ last.amount = 600 /\ last.newTotal = 600
    /\ last.userId \notin DOMAIN initial
    /\ last.userId \in DOMAIN guests /\ last.userId \notin DOMAIN users
    /\ guests[last.userId].number_of_credits = 600
    /\ parseSettings(guests[last.userId].settings).purchasedProducts = <<"credits_203">>

\* C24: the write step of an unlock handler either answers success, and then it ran
\* for a paid chapter of the catalog that was not unlocked on a balance of at least
\* 50, lowers the balance by exactly 50 and appends the chapter key to the unlocked
\* chapters of the resolved row in the same step, changing nothing else; or it
\* answers 500 and leaves both tables as they are.
C24_UnlockWrite ==
    [][ \A p \in Procs :
          (procs[p].op = "unlock" /\ procs[p].pc = "update" /\ procs'[p] # procs[p]) =>
            LET id == procs[p].userId
                chapterKey == ChapterKey(procs[p].bookId, procs[p].chapterNumber)
            IN \/ /\ last'.status = 200
                  /\ procs[p].chapterNumber >= 6
                  /\ chapterKey \in ChapterCatalog
                  /\ ~Includes(Account(id).paid_chapters, chapterKey)
                  /\ Balance(id) >= 50
                  /\ procs[p].table = (IF id \in DOMAIN users THEN "users" ELSE "guests")
                  /\ AccountNext(id) =
                        [Account(id) EXCEPT
                            !.number_of_credits = @ - 50,
                            !.paid_chapters = Append(@, chapterKey)]
                  /\ \A i \in DOMAIN users \ {id} : users'[i] = users[i]
                  /\ \A i \in DOMAIN guests \ {id} : guests'[i] = guests[i]
                  /\ last'.amount = 50
                  /\ last'.newTotal = BalanceNext(id)
               \/ /\ last'.status = 500
                  /\ last'.error = "Failed to unlock chapter"
                  /\ last'.amount = 0
                  /\ UNCHANGED <<users, guests>>
      ]_vars

C24_Witness ==
    /\ last.op = "unlock" /\ last.status = 200 /\ last.amount = 50
    /\ last.newTotal = 550 /\ Balance(last.userId) = 550
    /\ Account(last.userId).paid_chapters = <<ChapterKey("book1", 6)>>

\* C25: the write of a credit or unlock handler is not conditional on the row being
\* as the handler read it: it stores the balance and the history list computed from
\* the row read during account resolution, whatever the row holds at the write. So
\* of two overlapping calls that both answer success the later write erases the
\* earlier one (the state of the witness).
C25_WriteFromRead ==
    [][ \A p \in Procs :
          ( /\ procs[p].op \in {"credit", "unlock"} /\ procs[p].pc = "update"
            /\ procs'[p] = IdleProc /\ last'.status = 200 ) =>
            LET id == procs[p].userId
                read == procs[p].data
            IN IF procs[p].op = "credit"
               THEN /\ BalanceNext(id)
                         = read.number_of_credits
                             + findPackageByProductId(procs[p].productId).totalCredits
                    /\ parseSettings(AccountNext(id).settings).processedTransactions
                         = Append(parseSettings(read.settings).processedTransactions,
                                  procs[p].transactionId)
               ELSE /\ BalanceNext(id) = read.number_of_credits - CHAPTER_COST
                    /\ AccountNext(id).paid_chapters
                         = Append(read.paid_chapters,
                                  ChapterKey(procs[p].bookId, procs[p].chapterNumber))
      ]_vars

\* both credits of account a were answered with success, nothing was unlocked since,
\* and the balance holds the 600 of one of them only
C25_Witness ==
    /\ AllIdle
    /\ "a" \in DOMAIN initial
    /\ granted["a"]["credits_203"] = 1 /\ granted["a"]["credits_503"] = 1
    /\ Account("a").paid_chapters = initial["a"].paid_chapters
    /\ Balance("a") = initial["a"].number_of_credits + 600
    /\ parseSettings(Account("a").settings).processedTransactions = <<"t0", "t1">>

\* the settings of the row cannot be decoded: null, nothing, or text that is no JSON
Undecodable(row) == row.settings.kind \in {"null", "malformed"}

\* C26: decoding the settings of a row that holds null or text that is no JSON gives
\* empty lists of purchased products and processed transactions; a credit handler
\* that resolves such a row goes on to the write, and its write answers success with
\* the package's totalCredits and stores the request's transaction id as the first
\* processed transaction.
C26_DecodeTolerant ==
    [][ /\ \A id \in DOMAIN guests :
              Undecodable(guests[id]) =>
                 /\ parseSettings(guests[id].settings).purchasedProducts = <<>>
                 /\ parseSettings(guests[id].settings).processedTransactions = <<>>
        /\ \A p \in Procs :
              LET id == procs[p].userId
              IN ( /\ procs[p].op = "credit" /\ procs'[p] # procs[p]
                   /\ id \in DOMAIN guests /\ Undecodable(guests[id]) ) =>
                   /\ procs[p].pc = "fetchGuests" => procs'[p].pc = "update"
                   /\ procs[p].pc = "update" =>
                        /\ last'.status = 200
                        /\ last'.amount = findPackageByProductId(procs[p].productId).totalCredits
                        /\ BalanceNext(id) = Balance(id) + last'.amount
                        /\ parseSettings(guests'[id].settings).processedTransactions
                             = <<procs[p].transactionId>>
      ]_vars

C26_Witness ==
    /\ "a" \in DOMAIN initial /\ initial["a"].settings.kind = "malformed"
    /\ last.op = "credit" /\ last.userId = "a" /\ last.transactionId = "t1"
    /\ last.status = 200 /\ last.amount = 600
    /\ Balance("a") = 650

\* C27: with credit requests only, in any interleaving, every account that had no row
\* at the start holds a balance equal to the sum of the totalCredits of the
\* transactions in its processed transactions, none of them listed twice.
C27_BalanceIsProcessedSum ==
    \A id \in Ids \ DOMAIN initial :
        HasAccount(id) =>
            LET processedTransactions == parseSettings(Account(id).settings).processedTransactions
            IN /\ NoDuplicates(processedTransactions)
               /\ Balance(id) = SumCredits(Range(processedTransactions))

\* two overlapping credits of account b were both answered with success and the row
\* holds the second alone: 500 credits for t2
C27_Witness ==
    /\ "b" \notin DOMAIN initial
    /\ granted["b"]["credits_203"] = 1 /\ granted["b"]["credits_503"] = 1
    /\ Balance("b") = 500
    /\ parseSettings(Account("b").settings).processedTransactions = <<"t2">>

\* C28: with credit and unlock requests only, one at a time, every account that had
\* no row at the start satisfies in every state: balance + 50 * (number of unlocked
\* chapters) = the sum of the totalCredits of its processed transactions, and no
\* chapter is listed twice.
C28_Conservation ==
    \A id \in Ids \ DOMAIN initial :
        HasAccount(id) =>
            LET processedTransactions == parseSettings(Account(id).settings).processedTransactions
                paidChapters == Account(id).paid_chapters
            IN /\ NoDuplicates(paidChapters)
               /\ Balance(id) + CHAPTER_COST * Cardinality(Range(paidChapters))
                    = SumCredits(Range(processedTransactions))

C28_Witness ==
    /\ "b" \notin DOMAIN initial
    /\ Account("b").paid_chapters = <<ChapterKey("book1", 6)>>
    /\ parseSettings(Account("b").settings).processedTransactions = <<"t1", "t2">>
    /\ Balance("b") = 1050

\* C29: a credit or unlock request on the target user that directly follows a
\* successful merge changes no row when the guest merged in holds the request's
\* transaction id as processed, or holds its one-time product as purchased, or holds
\* its chapter as unlocked; the credit is then answered with success, creditsAdded = 0
\* and the target's balance, and the unlock with nothing deducted.
C29_GatesCarryOver ==
    [][ \A p \in Procs :
          ( /\ last.op = "merge" /\ last.status = 200
            /\ procs[p].op \in {"credit", "unlock"}
            /\ procs[p].userId = last.userId
            /\ procs'[p] # procs[p] ) =>
            LET source == guests[last.guestId]
                gates == parseSettings(source.settings)
                package == findPackageByProductId(procs[p].productId)
                gated ==
                    IF procs[p].op = "credit"
                    THEN \/ Includes(gates.processedTransactions, procs[p].transactionId)
                         \/ /\ package.oneTime
                            /\ Includes(gates.purchasedProducts, procs[p].productId)
                    ELSE Includes(source.paid_chapters,
                                  ChapterKey(procs[p].bookId, procs[p].chapterNumber))
            IN gated =>
                 /\ UNCHANGED <<users, guests>>
                 /\ procs[p].pc # "update"
                 /\ procs'[p] = IdleProc =>
                      /\ last'.amount = 0
                      /\ procs[p].pc \in {"fetchUsers", "fetchGuests", "create"} =>
                           /\ last'.status = 200
                           /\ last'.newTotal = Balance(procs[p].userId)
      ]_vars

\* a user who never bought the one-time package is refused it after the merge of a
\* guest who did
C29_Witness ==
    /\ last.op = "credit" /\ last.status = 200 /\ last.amount = 0
    /\ last.productId = "credits_203" /\ last.transactionId = "t3"
    /\ last.userId \in DOMAIN users
    /\ granted[last.userId]["credits_203"] = 0
    /\ Includes(parseSettings(users[last.userId].settings).purchasedProducts, "credits_203")
    /\ ~Includes(parseSettings(users[last.userId].settings).processedTransactions, "t3")

\* C30: a credit handler adds credits for a transaction id only when no other
\* account holds that transaction id as processed, so a transaction is credited to
\* one account at most.
C30_OneAccountPerTransaction ==
    [][ \A p \in Procs :
          ( /\ procs[p].op = "credit" /\ procs'[p] = IdleProc
            /\ last'.status = 200 /\ last'.amount > 0 ) =>
            \A other \in Ids \ {procs[p].userId} :
                ~Includes(parseSettings(Account(other).settings).processedTransactions,
                          procs[p].transactionId)
      ]_vars
====
